---- MODULE Spec2Model ----
(***************************************************************************)
(* Model of xrd.py: the XRD class (plane enumeration, pattern computation, *)
(* multiplicity merge, normalisation, d-spacing table).                    *)
(*                                                                         *)
(* Number representation.  The program works on floats; the model works on *)
(* exact integers and fractions:                                           *)
(*  - the lattice is orthorhombic, given by its three edge lengths (whole  *)
(*    numbers of a length unit); the wavelength is a whole number of the   *)
(*    same unit.  For such a lattice |k_i| = 2*pi/a_i;                     *)
(*  - (wavelength*|q|/(4 pi))^2, the square of the sine of the Bragg       *)
(*    angle, is the fraction SinSq/One with the fixed denominator One;     *)
(*  - a two-theta is an integer on a grid whose unit is the merge          *)
(*    tolerance (1e-5 degree); arcsin is strictly increasing, and the      *)
(*    two-theta of a plane is TwoThetaStep grid units per unit of SinSq;   *)
(*  - an intensity is a natural number, a normalised intensity a fraction  *)
(*    <<numerator, denominator>>, and 0/0 is NaN.                          *)
(***************************************************************************)
EXTENDS Integers, Sequences, FiniteSets, TLC

\* ---------------------------------------------------------------- bounds
MaxEdge == 3
MaxWavelength == 7
MaxExplicit == 2
MaxRecords == 8
MaxInten == 1
MaxRuns == 2
MaxLen == 3
MaxX == 3
MaxY == 2
TwoThetaStep == 2

\* ------------------------------------------------------ program constants
MAX_INDEX == 5
Tolerance == 1
MaxValue == 100

VARIABLES
  lattice, wavelength, atoms, sfactor,              \* the model object's inputs
  twotheta_list, inten_profile, intensity_list,     \* the cached pattern
  call, status, stdout, xrdRuns, stems, d_spacing_out,
  max_index, index_used, kvec_list,                 \* a call of get_kvec_list
  x_list, y_list, new_x_list, new_y_list, re_x_list, re_y_list, mpc

objVars == <<lattice, wavelength, atoms, sfactor>>
patVars == <<twotheta_list, inten_profile, intensity_list>>
runVars == <<call, status, stdout, xrdRuns, stems, d_spacing_out>>
kvecVars == <<max_index, index_used, kvec_list>>
mergeVars == <<x_list, y_list, new_x_list, new_y_list, re_x_list, re_y_list, mpc>>
vars == <<objVars, patVars, runVars, kvecVars, mergeVars>>

\* ---------------------------------------------------------------- helpers
Abs(n) == IF n < 0 THEN -n ELSE n
Min2(a, b) == IF a < b THEN a ELSE b
Max2(a, b) == IF a < b THEN b ELSE a
MinOf(S) == CHOOSE m \in S : \A n \in S : m <= n
CeilDiv(n, d) == (n + d - 1) \div d
Reverse(s) == [i \in 1..Len(s) |-> s[Len(s) + 1 - i]]
SeqsUpTo(S, n) == UNION {[1..m -> S] : m \in 0..n}

\* Python's None and a value that is set
None == [none |-> TRUE, list |-> <<>>]
Some(s) == [none |-> FALSE, list |-> s]
\* "not x" of Python for a field holding None or a list
Falsy(f) == f.none \/ Len(f.list) = 0

\* an optional integer argument (max_index=None by default)
NoIndex == [given |-> FALSE, value |-> 0]
Index(m) == [given |-> TRUE, value |-> m]

\* ------------------------------------------------------- the Bragg sine
RECURSIVE SquareProduct(_)
SquareProduct(n) == IF n = 0 THEN 1 ELSE n * n * SquareProduct(n - 1)
\* common denominator of 1/a^2 for the edges of the model
EdgeDen == SquareProduct(MaxEdge)
\* sin_twotheta = 1 as a numerator over the fixed denominator
One == 4 * EdgeDen

\* (wavelength * norm(q) / 4 / pi)^2 * One for q = h*k_1 + k*k_2 + l*k_3
SinSq(t, lat, wl) ==
  wl * wl * ( t[1] * t[1] * (EdgeDen \div (lat[1] * lat[1]))
            + t[2] * t[2] * (EdgeDen \div (lat[2] * lat[2]))
            + t[3] * t[3] * (EdgeDen \div (lat[3] * lat[3])) )

\* -1 <= sin_twotheta <= 1 (the sine is a norm times a positive number)
Bragg(t, lat, wl) == SinSq(t, lat, wl) <= One

\* ------------------------------------------------------- get_kvec_list
\* int(ceil(1/wavelength/norm(k_i)*4*pi)) for |k_i| = 2 pi / a_i
AxisIndex(a, wl) == CeilDiv(2 * a, wl)

\* the bound without min(MAX_INDEX, max_index)
AutoIndexUncapped(lat, wl) ==
  Max2(AxisIndex(lat[1], wl), Max2(AxisIndex(lat[2], wl), AxisIndex(lat[3], wl)))

AutoIndex(lat, wl) ==
  Min2(MAX_INDEX,
       Max2(AxisIndex(lat[1], wl), Max2(AxisIndex(lat[2], wl), AxisIndex(lat[3], wl))))

\* the value of max_index after the "if not max_index" block
UsedIndex(lat, wl, mi) ==
  IF ~mi.given \/ mi.value = 0 THEN AutoIndex(lat, wl) ELSE mi.value

\* product(xrange(-m, m), repeat=3): the upper end left out
ProductHalfOpen(m) ==
  LET n == 2 * m
  IN  [i \in 1..(n * n * n) |->
         <<((i - 1) \div (n * n)) - m, (((i - 1) \div n) % n) - m, ((i - 1) % n) - m>>]

\* product(xrange(-m, m + 1), repeat=3), in the order product yields it
Product(m) ==
  LET n == 2 * m + 1
  IN  [i \in 1..(n * n * n) |->
         <<((i - 1) \div (n * n)) - m, (((i - 1) \div n) % n) - m, ((i - 1) % n) - m>>]

KvecOf(lat, wl, m) == SelectSeq(Product(m), LAMBDA t : Bragg(t, lat, wl))

get_kvec_list(lat, wl, mi) == KvecOf(lat, wl, UsedIndex(lat, wl, mi))

\* ------------------------------------------------ inputs of the models
Edges == 1..MaxEdge
Lattices == Edges \X Edges \X Edges
Wavelengths == 1..MaxWavelength

\* =================================================================
\* Specification KvecSpec: calls of get_kvec_list on a constructed model
\* =================================================================
IdleRun ==
  /\ call = "none" /\ status = "ok" /\ stdout = <<>> /\ xrdRuns = 0
  /\ stems = None /\ d_spacing_out = None
IdlePattern ==
  /\ twotheta_list = None /\ inten_profile = None /\ intensity_list = None
IdleKvec == max_index = NoIndex /\ index_used = 0 /\ kvec_list = None
IdleMerge ==
  /\ x_list = <<>> /\ y_list = <<>> /\ new_x_list = <<>> /\ new_y_list = <<>>
  /\ re_x_list = <<>> /\ re_y_list = <<>> /\ mpc = "idle"

KvecInit ==
  /\ lattice \in Lattices
  /\ wavelength \in Wavelengths
  /\ atoms = <<>> /\ sfactor = <<>>
  /\ IdlePattern /\ IdleRun /\ IdleKvec /\ IdleMerge

KvecCall(mi) ==
  /\ max_index' = mi
  /\ index_used' = UsedIndex(lattice, wavelength, mi)
  /\ kvec_list' = Some(get_kvec_list(lattice, wavelength, mi))
  /\ UNCHANGED <<objVars, patVars, runVars, mergeVars>>

GetKvecListDefault == KvecCall(NoIndex)

GetKvecListExplicit == \E m \in 0..MaxExplicit : KvecCall(Index(m))

KvecNext == GetKvecListDefault \/ GetKvecListExplicit

KvecSpec == KvecInit /\ [][KvecNext]_vars

Neg(t) == <<-t[1], -t[2], -t[3]>>
Range(s) == {s[i] : i \in 1..Len(s)}
Cube(m) == (-m..m) \X (-m..m) \X (-m..m)
LexLess(s, t) ==
  \/ s[1] < t[1]
  \/ s[1] = t[1] /\ s[2] < t[2]
  \/ s[1] = t[1] /\ s[2] = t[2] /\ s[3] < t[3]
\* the least integer n with n >= 2*a/wl, found by search
CeilOfRatio(a, wl) ==
  CHOOSE n \in 0..(2 * a) : n * wl >= 2 * a /\ (n = 0 \/ (n - 1) * wl < 2 * a)
CappedBound(lat, wl) ==
  LET big == CHOOSE b \in {CeilOfRatio(lat[i], wl) : i \in 1..3} :
               \A i \in 1..3 : CeilOfRatio(lat[i], wl) <= b
  IN  IF big > 5 THEN 5 ELSE big

\* C5 (as claimed): a call with an explicit max_index, 0 included, scans
\* exactly the cube [-max_index, max_index]^3: the bound used is the
\* argument and the result is that cube's triples passing the Bragg filter.
C5_ExplicitVerbatim ==
  (~kvec_list.none /\ max_index.given) =>
     /\ index_used = max_index.value
     /\ Range(kvec_list.list) =
          {t \in Cube(max_index.value) : Bragg(t, lattice, wavelength)}

\* C7: the output of get_kvec_list is symmetric under negation: (h,k,l) is
\* in it if and only if (-h,-k,-l) is, for every lattice, wavelength, bound.
C7_NegationSymmetric ==
  ~kvec_list.none =>
     \A t \in Range(kvec_list.list) \cup {Neg(u) : u \in Range(kvec_list.list)} :
        (t \in Range(kvec_list.list)) <=> (Neg(t) \in Range(kvec_list.list))

C7_Witness ==
  /\ ~kvec_list.none
  /\ <<1, -1, 0>> \in Range(kvec_list.list)
  /\ <<-1, 1, 0>> \in Range(kvec_list.list)
  /\ max_index.given

\* C10: without an explicit bound the result is exactly the triples of the
\* cube [-B, B]^3 passing the Bragg filter, each once, ascending with h
\* outermost and l innermost, B the largest per-axis ceil(4 pi/(wl |b_i|))
\* capped at 5; no returned index exceeds 5 in absolute value.
C10_DefaultEnumeration ==
  (~kvec_list.none /\ ~max_index.given) =>
     LET out == kvec_list.list
         B == CappedBound(lattice, wavelength)
     IN  /\ Range(out) = {t \in Cube(B) : Bragg(t, lattice, wavelength)}
         /\ \A i \in 1..Len(out) : \A j \in 1..Len(out) :
               i < j => LexLess(out[i], out[j])
         /\ \A i \in 1..Len(out) : \A c \in 1..3 : Abs(out[i][c]) <= 5

C10_Witness ==
  /\ ~kvec_list.none /\ ~max_index.given
  /\ 2 * lattice[1] > 5 * wavelength
  /\ <<5, 0, 0>> \in Range(kvec_list.list)
  /\ <<0, 0, 0>> \in Range(kvec_list.list)

\* =================================================================
\* sum_intensity and normalize (nested in plot and in get_dspacing)
\* =================================================================
\* np.where(abs(new_x_list - x_value) <= tolerance)[0]
WhereClose(nx, x_value, tolerance) ==
  {j \in 1..Len(nx) : Abs(nx[j] - x_value) <= tolerance}

\* the loop of sum_intensity from element i on, with the lists built so far
RECURSIVE SumFrom(_, _, _, _, _, _)
SumFrom(xs, ys, tolerance, i, nx, ny) ==
  IF i > Len(xs) THEN <<nx, ny>>
  ELSE LET index == WhereClose(nx, xs[i], tolerance)
       IN  IF index # {}
           THEN SumFrom(xs, ys, tolerance, i + 1, nx,
                        [ny EXCEPT ![MinOf(index)] = @ + ys[i]])
           ELSE SumFrom(xs, ys, tolerance, i + 1, Append(nx, xs[i]), Append(ny, ys[i]))

\* the loop adding to the last close entry (index[-1]) instead of the first
RECURSIVE SumFromLast(_, _, _, _, _, _)
SumFromLast(xs, ys, tolerance, i, nx, ny) ==
  IF i > Len(xs) THEN <<nx, ny>>
  ELSE LET index == WhereClose(nx, xs[i], tolerance)
       IN  IF index # {}
           THEN SumFromLast(xs, ys, tolerance, i + 1, nx,
                  [ny EXCEPT ![CHOOSE j \in index : \A k \in index : k <= j] = @ + ys[i]])
           ELSE SumFromLast(xs, ys, tolerance, i + 1, Append(nx, xs[i]), Append(ny, ys[i]))

\* the loop with the two appends outside the else branch
RECURSIVE SumFromAppending(_, _, _, _, _, _)
SumFromAppending(xs, ys, tolerance, i, nx, ny) ==
  IF i > Len(xs) THEN <<nx, ny>>
  ELSE LET index == WhereClose(nx, xs[i], tolerance)
           ny2 == IF index # {} THEN [ny EXCEPT ![MinOf(index)] = @ + ys[i]] ELSE ny
       IN  SumFromAppending(xs, ys, tolerance, i + 1, Append(nx, xs[i]), Append(ny2, ys[i]))

sum_intensity_last(xs, ys, tolerance) == SumFromLast(xs, ys, tolerance, 1, <<>>, <<>>)

sum_intensity_appending(xs, ys, tolerance) ==
  SumFromAppending(xs, ys, tolerance, 1, <<>>, <<>>)

\* sum_intensity(x_list, y_list, tolerance=1E-5): <<new_x_list, new_y_list>>
sum_intensity(xs, ys, tolerance) == SumFrom(xs, ys, tolerance, 1, <<>>, <<>>)

\* =================================================================
\* Specification MergeSpec: sum_intensity applied to input sequences
\* =================================================================
MergeInit ==
  /\ x_list \in SeqsUpTo(0..MaxX, MaxLen)
  /\ y_list \in [1..Len(x_list) -> 1..MaxY]
  /\ new_x_list = <<>> /\ new_y_list = <<>>
  /\ re_x_list = <<>> /\ re_y_list = <<>> /\ mpc = "idle"
  /\ lattice = <<1, 1, 1>> /\ wavelength = 1 /\ atoms = <<>> /\ sfactor = <<>>
  /\ IdlePattern /\ IdleRun /\ IdleKvec

Merge ==
  /\ mpc = "idle"
  /\ LET r == sum_intensity(x_list, y_list, Tolerance)
     IN  new_x_list' = r[1] /\ new_y_list' = r[2]
  /\ mpc' = "merged"
  /\ UNCHANGED <<x_list, y_list, re_x_list, re_y_list>>
  /\ UNCHANGED <<objVars, patVars, runVars, kvecVars>>

Remerge ==
  /\ mpc = "merged"
  /\ LET r == sum_intensity(new_x_list, new_y_list, Tolerance)
     IN  re_x_list' = r[1] /\ re_y_list' = r[2]
  /\ mpc' = "remerged"
  /\ UNCHANGED <<x_list, y_list, new_x_list, new_y_list>>
  /\ UNCHANGED <<objVars, patVars, runVars, kvecVars>>

MergeNext == Merge \/ Remerge

MergeSpec == MergeInit /\ [][MergeNext]_vars

Merged == mpc \in {"merged", "remerged"}
\* the merged entry an input element lies within the tolerance of, first one
EntryOf(i) == MinOf({j \in 1..Len(new_x_list) : Abs(new_x_list[j] - x_list[i]) <= Tolerance})
MembersOf(j) == {i \in 1..Len(x_list) : EntryOf(i) = j}
RECURSIVE SumOver(_, _)
SumOver(ys, I) ==
  IF I = {} THEN 0 ELSE LET i == MinOf(I) IN ys[i] + SumOver(ys, I \ {i})

\* C3 (as claimed): any two input reflections whose two-theta differ by no
\* more than the tolerance are summed into the same merged entry.
C3_CloseSharesEntry ==
  Merged =>
    /\ \A i \in 1..Len(x_list) :
          \E j \in 1..Len(new_x_list) : Abs(new_x_list[j] - x_list[i]) <= Tolerance
    /\ \A i1 \in 1..Len(x_list) : \A i2 \in 1..Len(x_list) :
          Abs(x_list[i1] - x_list[i2]) <= Tolerance => EntryOf(i1) = EntryOf(i2)

\* C3 (amended): every input reflection is summed into the first merged
\* entry whose representative two-theta is within the tolerance of its own;
\* an entry's two-theta is that of the first reflection summed into it and
\* its intensity the sum of the intensities of the reflections summed into it.
C3_FirstCloseEntry ==
  Merged =>
    /\ Len(new_x_list) = Len(new_y_list)
    /\ \A i \in 1..Len(x_list) :
          \E j \in 1..Len(new_x_list) : Abs(new_x_list[j] - x_list[i]) <= Tolerance
    /\ \A j \in 1..Len(new_x_list) :
          /\ MembersOf(j) # {}
          /\ new_x_list[j] = x_list[MinOf(MembersOf(j))]
          /\ new_y_list[j] = SumOver(y_list, MembersOf(j))
    /\ \A j1 \in 1..Len(new_x_list) : \A j2 \in 1..Len(new_x_list) :
          j1 < j2 => MinOf(MembersOf(j1)) < MinOf(MembersOf(j2))

C3_Witness ==
  /\ Merged
  /\ x_list = <<0, 2, 1>>
  /\ new_x_list = <<0, 2>>
  /\ new_y_list = <<y_list[1] + y_list[3], y_list[2]>>

\* C8: merging is idempotent: the representatives of a merged sequence
\* pairwise differ by more than the tolerance, and sum_intensity applied to
\* the output of sum_intensity returns the same two sequences.
C8_MergeIdempotent ==
  /\ Merged =>
       \A j1 \in 1..Len(new_x_list) : \A j2 \in 1..Len(new_x_list) :
          j1 # j2 => Abs(new_x_list[j1] - new_x_list[j2]) > Tolerance
  /\ mpc = "remerged" => (re_x_list = new_x_list /\ re_y_list = new_y_list)

C8_Witness ==
  /\ mpc = "remerged"
  /\ Len(new_x_list) = 2
  /\ Len(x_list) = 3
  /\ re_x_list = new_x_list /\ re_y_list = new_y_list

\* =================================================================
\* normalize, the ranking of get_dspacing, get_atom_form, get_xrd
\* =================================================================
\* a normalised intensity y / max * max_value as a fraction; 0/0 is NaN
NaN == <<0, 0>>
IsNaN(f) == f[2] = 0
FracLess(f, g) == ~IsNaN(f) /\ ~IsNaN(g) /\ f[1] * g[2] < g[1] * f[2]
FracEquals(f, n) == ~IsNaN(f) /\ f[1] = n * f[2]

MaxOfSeq(ys) == CHOOSE m \in Range(ys) : \A n \in Range(ys) : n <= m

\* normalize(y_list, max_value=100.): max() of an empty array raises
\* ValueError; intensities are not negative, so a largest value of 0 makes
\* every quotient 0/0
normalize(ys, max_value) ==
  IF Len(ys) = 0 THEN [raised |-> TRUE, list |-> <<>>]
  ELSE LET m == MaxOfSeq(ys)
       IN  [raised |-> FALSE,
            list |-> [i \in 1..Len(ys) |-> IF m = 0 THEN NaN ELSE <<ys[i] * max_value, m>>]]

\* np.argsort(y_list): a permutation putting y_list in non-decreasing order;
\* the order among equal values depends on the sort numpy runs
Argsorts(ys) ==
  {p \in Permutations(1..Len(ys)) :
     \A i \in 1..Len(ys) : \A j \in 1..Len(ys) : i < j => ~FracLess(ys[p[j]], ys[p[i]])}

\* np.sort(y_list)[::-1]
y_list_sort(ys) ==
  LET p == CHOOSE q \in Argsorts(ys) : TRUE IN Reverse([i \in 1..Len(ys) |-> ys[p[i]]])

\* the two-theta taken in argsort order and left unreversed
x_list_sort_unreversed(xs, argsort) == [i \in 1..Len(argsort) |-> xs[argsort[i]]]

\* x_list_sort: x_list taken in argsort order, then reversed
x_list_sort(xs, argsort) == Reverse([i \in 1..Len(argsort) |-> xs[argsort[i]]])

\* d = wavelength / (2 sin(x pi / 360)), as the fraction d^2
DSpacing(x, wl) == <<wl * wl * EdgeDen, x \div TwoThetaStep>>

\* 2 * 180 / pi * arcsin(wavelength * y) on the two-theta grid
TwoTheta(t, lat, wl) == SinSq(t, lat, wl) * TwoThetaStep

\* the symbols with a line in the form-factor file, and the symbols of atoms
FormTable == {"Si", "O"}

\* "theta == np.pi / 2. or theta == 0": the plane gives no record
Degenerate(t, lat, wl) == SinSq(t, lat, wl) = One \/ SinSq(t, lat, wl) = 0

\* the planes of an enumeration that get a reflection record
EmittingOf(kv, lat, wl) ==
  SelectSeq(kv, LAMBDA t : Bragg(t, lat, wl) /\ ~Degenerate(t, lat, wl))

Emitting(lat, wl) == EmittingOf(get_kvec_list(lat, wl, NoIndex), lat, wl)

\* norm(sum(s_factor_list))**2 * lp_factor of a plane: the same for (h,k,l)
\* and (-h,-k,-l), so sfactor is indexed by the larger of the two
Canon(t) == IF LexLess(t, Neg(t)) THEN Neg(t) ELSE t
Inten(sf, t) == sf[Canon(t)]

ProfileOf(kv, lat, wl, sf) ==
  LET ok == EmittingOf(kv, lat, wl)
  IN  [i \in 1..Len(ok) |->
         [h |-> ok[i][1], k |-> ok[i][2], l |-> ok[i][3],
          twotheta |-> TwoTheta(ok[i], lat, wl), inten |-> Inten(sf, ok[i])]]

\* the "else: print self.wavelength * y" notices
Notices(kv, lat, wl) ==
  LET bad == SelectSeq(kv, LAMBDA t : ~Bragg(t, lat, wl))
  IN  [i \in 1..Len(bad) |-> <<"sin", SinSq(bad[i], lat, wl)>>]

\* get_xrd skipping an element get_atom_form has no line for
get_xrd_tolerant(lat, wl, ats, sf) ==
  LET kv == get_kvec_list(lat, wl, NoIndex)
      unknown == SelectSeq(ats, LAMBDA a : a \notin FormTable)
  IN  {[raised |-> FALSE,
        printed |-> [i \in 1..Len(unknown) |-> <<"no data for", unknown[i]>>]
                      \o Notices(kv, lat, wl),
        profile |-> ProfileOf(kv, lat, wl, sf)]}

\* get_xrd before it stores the pattern: the outcomes of its loop.
\* get_atom_form prints and returns None for a symbol without a line, and
\* a_form_parm[0] then raises TypeError in the first pass of the loop; the
\* set of elements is iterated in no fixed order
get_xrd(lat, wl, ats, sf) ==
  LET kv == get_kvec_list(lat, wl, NoIndex)
  IN  IF Len(kv) > 0 /\ Range(ats) \ FormTable # {}
      THEN {[raised |-> TRUE, printed |-> << <<"no data for", e>> >>, profile |-> <<>>] :
              e \in Range(ats) \ FormTable}
      ELSE {[raised |-> FALSE, printed |-> Notices(kv, lat, wl),
             profile |-> ProfileOf(kv, lat, wl, sf)]}

TwoThetas(profile) == [i \in 1..Len(profile) |-> profile[i].twotheta]
Intensities(profile) == [i \in 1..Len(profile) |-> profile[i].inten]

\* =================================================================
\* Specification Spec: a constructed model and calls of its methods
\* =================================================================
\* atom lists: none, all with a line in the file, one or two without
AtomLists == {<<>>, <<"Si", "O">>, <<"Si", "Xx">>, <<"Zz", "Xx">>}
CanonPlanes(lat, wl) == {Canon(t) : t \in Range(Emitting(lat, wl))}

\* __init__: the fields of the pattern are None
Init ==
  /\ lattice \in Lattices
  /\ wavelength \in Wavelengths
  /\ Len(Emitting(lattice, wavelength)) <= MaxRecords
  /\ atoms \in AtomLists
  /\ sfactor \in [CanonPlanes(lattice, wavelength) -> 0..MaxInten]
  /\ (atoms = <<>> \/ ~(Range(atoms) \subseteq FormTable)) =>
        \A t \in DOMAIN sfactor : sfactor[t] = 0
  /\ IdlePattern /\ IdleRun /\ IdleKvec /\ IdleMerge

\* lines 153-155, reached only when the loop raised nothing
Store(r) ==
  IF r.raised
  THEN /\ status' = "error"
       /\ UNCHANGED patVars
  ELSE /\ inten_profile' = Some(r.profile)
       /\ twotheta_list' = Some(TwoThetas(r.profile))
       /\ intensity_list' = Some(Intensities(r.profile))
       /\ status' = "ok"

\* xrd.get_xrd()
GetXrd ==
  /\ status = "ok" /\ xrdRuns < MaxRuns
  /\ \E r \in get_xrd(lattice, wavelength, atoms, sfactor) :
        /\ Store(r)
        /\ stdout' = stdout \o r.printed
  /\ call' = "get_xrd"
  /\ xrdRuns' = xrdRuns + 1
  /\ UNCHANGED <<objVars, stems, d_spacing_out, kvecVars, mergeVars>>

\* "if not self.twotheta_list: self.get_xrd()": the runs of get_xrd the test
\* starts, or the stored pattern
Ensured ==
  IF Falsy(twotheta_list)
  THEN {[ran |-> TRUE, raised |-> r.raised, printed |-> r.printed, profile |-> r.profile] :
          r \in get_xrd(lattice, wavelength, atoms, sfactor)}
  ELSE {[ran |-> FALSE, raised |-> FALSE, printed |-> <<>>, profile |-> inten_profile.list]}

\* the fields after the test, and the count of runs
AfterEnsured(e) ==
  /\ stdout' = stdout \o e.printed
  /\ xrdRuns' = IF e.ran THEN xrdRuns + 1 ELSE xrdRuns
  /\ IF e.ran /\ ~e.raised
     THEN /\ inten_profile' = Some(e.profile)
          /\ twotheta_list' = Some(TwoThetas(e.profile))
          /\ intensity_list' = Some(Intensities(e.profile))
     ELSE UNCHANGED patVars

\* sum_intensity then normalize of the pattern
MergedOf(profile) == sum_intensity(TwoThetas(profile), Intensities(profile), Tolerance)
NormalizedOf(profile) == normalize(MergedOf(profile)[2], MaxValue)

\* xrd.plot(angles, output)
Plot ==
  /\ status = "ok"
  /\ \E e \in Ensured :
        LET merged == MergedOf(e.profile)
            normal == normalize(merged[2], MaxValue)
        IN  /\ AfterEnsured(e)
            /\ IF e.raised \/ normal.raised
               THEN status' = "error" /\ UNCHANGED stems
               ELSE /\ status' = "ok"
                    /\ stems' = Some([i \in 1..Len(merged[1]) |->
                                        [x |-> merged[1][i], y |-> normal.list[i]]])
  /\ call' = "plot"
  /\ UNCHANGED <<objVars, d_spacing_out, kvecVars, mergeVars>>

\* the rows written to d_spacing.out for one result of argsort
Rows(x_merged, y_normal, argsort, wl) ==
  LET xs == x_list_sort(x_merged, argsort)
      ys == y_list_sort(y_normal)
  IN  [i \in 1..Len(xs) |->
         [intensity |-> ys[i], two_theta |-> xs[i], d_spacing |-> DSpacing(xs[i], wl)]]

\* xrd.get_dspacing()
GetDspacing ==
  /\ status = "ok"
  /\ \E e \in Ensured :
        LET merged == MergedOf(e.profile)
            normal == normalize(merged[2], MaxValue)
        IN  /\ AfterEnsured(e)
            /\ IF e.raised \/ normal.raised
               THEN status' = "error" /\ UNCHANGED d_spacing_out
               ELSE /\ status' = "ok"
                    /\ \E argsort \in Argsorts(normal.list) :
                          d_spacing_out' = Some(Rows(merged[1], normal.list, argsort, wavelength))
  /\ call' = "get_dspacing"
  /\ UNCHANGED <<objVars, stems, kvecVars, mergeVars>>

Next == GetXrd \/ Plot \/ GetDspacing

Spec == Init /\ [][Next]_vars

\* no (h,k,l) other than (0,0,0) satisfies the Bragg condition
OnlyOrigin == \A t \in Cube(MAX_INDEX) : Bragg(t, lattice, wavelength) => t = <<0, 0, 0>>
AtomsTabulated == Range(atoms) \subseteq FormTable

\* C1 (as claimed): with a wavelength so large that only (0,0,0) satisfies
\* the Bragg condition, the run of the main script (construct, get_xrd,
\* get_dspacing) ends without an error, with no reflection record and with
\* a d-spacing table that has no data row.
C1_EmptyPatternRun ==
  [][ ( /\ OnlyOrigin /\ AtomsTabulated /\ atoms # <<>>
        /\ call = "get_xrd" /\ xrdRuns = 1 /\ status = "ok"
        /\ call' = "get_dspacing" )
      => ( /\ status' = "ok"
           /\ inten_profile' = Some(<<>>)
           /\ d_spacing_out' = Some(<<>>) ) ]_vars

\* C2 (as claimed): for every computed pattern, after sum_intensity and
\* normalize in plot and in get_dspacing the largest intensity of the output
\* is 100 and every intensity is at most 100.
C2_MaxIsHundred ==
  /\ (call = "plot" /\ ~twotheta_list.none) =>
        /\ status = "ok" /\ ~stems.none
        /\ \E i \in 1..Len(stems.list) : FracEquals(stems.list[i].y, 100)
        /\ \A i \in 1..Len(stems.list) :
              ~IsNaN(stems.list[i].y) /\ ~FracLess(<<100, 1>>, stems.list[i].y)
  /\ (call = "get_dspacing" /\ ~twotheta_list.none) =>
        /\ status = "ok" /\ ~d_spacing_out.none
        /\ \E i \in 1..Len(d_spacing_out.list) :
              FracEquals(d_spacing_out.list[i].intensity, 100)
        /\ \A i \in 1..Len(d_spacing_out.list) :
              /\ ~IsNaN(d_spacing_out.list[i].intensity)
              /\ ~FracLess(<<100, 1>>, d_spacing_out.list[i].intensity)

\* C4 (as claimed): once get_xrd has run for a model, a later call of plot
\* or get_dspacing reuses the stored pattern and does not run get_xrd again.
C4_ComputedOnce ==
  [][ (~twotheta_list.none /\ call' \in {"plot", "get_dspacing"})
      => (xrdRuns' = xrdRuns /\ UNCHANGED patVars) ]_vars

\* C6: the rows get_dspacing writes are exactly the merged peaks, one row
\* per merged peak, in order of non-increasing normalised intensity (no row
\* is followed by one of greater intensity), and the intensity, two-theta
\* and d-spacing of a row are those of one merged peak, d computed from the
\* two-theta of the row, also when merged peaks have equal intensities.
C6_RowsAreRankedPeaks ==
  ~d_spacing_out.none =>
    LET rows == d_spacing_out.list
        merged == MergedOf(inten_profile.list)
        normal == NormalizedOf(inten_profile.list).list
    IN  /\ Len(rows) = Len(merged[1])
        /\ \A j \in 1..Len(merged[1]) :
              \E i \in 1..Len(rows) :
                 rows[i] = [intensity |-> normal[j], two_theta |-> merged[1][j],
                            d_spacing |-> DSpacing(merged[1][j], wavelength)]
        /\ \A i \in 1..Len(rows) : \A k \in 1..Len(rows) :
              i < k => ( /\ rows[i].two_theta # rows[k].two_theta
                         /\ ~FracLess(rows[i].intensity, rows[k].intensity) )

C6_Witness ==
  /\ ~d_spacing_out.none
  /\ Len(d_spacing_out.list) = 3
  /\ d_spacing_out.list[2].intensity = d_spacing_out.list[3].intensity
  /\ FracLess(<<0, 1>>, d_spacing_out.list[3].intensity)
  /\ FracLess(d_spacing_out.list[2].intensity, d_spacing_out.list[1].intensity)
  /\ d_spacing_out.list[2].two_theta < d_spacing_out.list[3].two_theta
  /\ d_spacing_out.list[3].two_theta < d_spacing_out.list[1].two_theta

\* C9: when an atom's element has no line in the form-factor file, a run of
\* get_xrd prints the missing symbol and ends in an error, no reflection
\* record is produced, and inten_profile, twotheta_list and intensity_list
\* keep the values they had before the call.
C9_MissingElementFatal ==
  [][ (xrdRuns' # xrdRuns /\ ~AtomsTabulated)
      => ( /\ status' = "error"
           /\ \E e \in Range(atoms) \ FormTable :
                 stdout' = Append(stdout, <<"no data for", e>>)
           /\ UNCHANGED patVars
           /\ UNCHANGED <<stems, d_spacing_out>> ) ]_vars

C9_Witness ==
  /\ status = "error" /\ xrdRuns = 1 /\ call = "get_xrd"
  /\ atoms = <<"Si", "Xx">>
  /\ stdout = << <<"no data for", "Xx">> >>
  /\ twotheta_list = None /\ inten_profile = None /\ intensity_list = None

====
